---- MODULE Spec2Model ----
(***************************************************************************)
(* Discovery lifecycle of simod-http: submission, dispatch, status reports *)
(* through PATCH and through the Celery tasks, completion post-processing  *)
(* and deletion, over the Mongo discoveries collection and the output      *)
(* directories on the file system.                                         *)
(*                                                                         *)
(* Every handler and task is a process that interleaves with the others at *)
(* its repository and file-system calls; a process keeps the Discovery     *)
(* object it loaded (or was handed) as its private copy between calls.     *)
(***************************************************************************)
EXTENDS Integers, FiniteSets, Sequences, TLC

\* ---------------------------------------------------------------- bounds
MaxDisc == 1
MaxTime == 1
MaxReports == 2
MaxPatch == 1
MaxDelete == 2
\* bounds of the specification of the sweeper (SpecSweep)
MaxSweepDisc == 2
MaxSweepTime == 2
MaxSweeps == 2
\* bounds of the specifications of the broker client, the files repository
\* and the concurrent status updates
MaxConnect == 2
MaxFailures == 2
MaxWrites == 3
MaxCallers == 2
\* the two intervals of scheduler.py, which reads them from the environment
\* (SIMOD_STORAGE_DISCOVERY_EXPIRATION_TIMEDELTA, the retention window R,
\* and SIMOD_STORAGE_CLEANING_TIMEDELTA), in ticks of the model's clock
discovery_expiration_timedelta == 1
discovery_results_cleaning_interval == 1

Ids == 1..MaxSweepDisc
Time == 0..MaxSweepTime
Slots == 1..MaxReports
SweepSlots == 1..MaxSweeps

\* ------------------------------------------------------ values of the code
\* Optional[...] fields: None is the empty set, a value x is {x}.
None == {}
Some(x) == {x}

UNKNOWN == "unknown"
ACCEPTED == "accepted"
PENDING == "pending"
RUNNING == "running"
SUCCEEDED == "succeeded"
FAILED == "failed"
DELETED == "deleted"
\* worker.py writes and reads DiscoveryStatus.EXPIRED; the enumeration of
\* discoveries/model.py does not list it, its value is taken to be "expired".
EXPIRED == "expired"

DiscoveryStatus == {UNKNOWN, ACCEPTED, PENDING, RUNNING, SUCCEEDED, FAILED, DELETED}

HTTP == "callback"
EMAIL == "email"

\* How a submission reaches the service: the Celery router
\* (routes/discoveries.py), the broker application (main.py) and the
\* file-backed router (src/simod_http/router.py).
Variants == {"celery", "broker", "legacy"}

\* Names inside an output directory.
BestResult == "best_result"
ResultsArchive == "results.tar.gz"

\* shutil.make_archive(base, "gztar") returns base + ".tar.gz"
make_archive_name(base) == IF base = "results" THEN ResultsArchive ELSE "other.tar.gz"

\* api.url_path_for("get_discovery_file", discovery_id, file_name)
url_path_for(discovery_id, file_name) == [id |-> discovery_id, file |-> file_name]

\* The URL PATCH stores: .../discoveries/{id}/{id}.tar.gz
make_results_url_for(discovery_id, status) ==
    IF status = SUCCEEDED THEN Some([id |-> discovery_id, file |-> "id.tar.gz"]) ELSE None

\* ------------------------------------------------------------------ state
VARIABLES
    now,            \* the wall clock read by datetime.now()
    next_id,        \* the next ObjectId the collection hands out
    collection,     \* the Mongo collection: id -> stored document
    dirs,           \* ids whose output directory exists
    files,          \* id -> names present in its output directory
    dispatch,       \* id -> the background dispatch task of the submission
    published,      \* ids announced to the broker / task queue
    run,            \* id -> the run_discovery task
    post,           \* id -> slot -> a post_process_discovery_result task
    notifier_calls, \* id -> invocations of _resolve_notification
    patches,        \* PATCH requests served so far
    deletes,        \* DELETE requests served so far
    deleting,       \* ids with a delete_discovery handler between get and save_status
    response,       \* the last answer given to an HTTP caller
    sweeper,        \* the scheduler's next run times and the sweeper tasks
    broker_client,  \* the BrokerClient: its retry budget and its call in progress
    files_repository, \* the FileSystemFilesRepository: stored files, writes, last File
    status_calls    \* the save_status calls in progress on one Discovery

vars == <<now, next_id, collection, dirs, files, dispatch, published, run, post,
          notifier_calls, patches, deletes, deleting, response, sweeper,
          broker_client, files_repository, status_calls>>

\* A Discovery object (discoveries/model.py), fields None where unset.
Discovery(status, ns) ==
    [ configuration_path |-> Some("configuration.yaml"),
      status |-> status,
      output_dir |-> None,
      notification_settings |-> ns,
      created_timestamp |-> None,
      started_timestamp |-> None,
      finished_timestamp |-> None,
      archive_url |-> None,
      notified |-> FALSE ]

OptionalFields == {"configuration_path", "output_dir", "notification_settings",
                   "created_timestamp", "started_timestamp", "finished_timestamp",
                   "archive_url"}

\* _notification_settings_from_params: a NotificationSettings object
NotificationSettings(method) == [method |-> method, form |-> "object"]

notification_settings_from_params(callback_url, email) ==
    IF callback_url THEN Some(NotificationSettings(HTTP))
    ELSE IF email THEN Some(NotificationSettings(EMAIL))
    ELSE None

\* Discovery.to_dict calls notification_settings.dict(...), which only a
\* NotificationSettings object has: for a loaded Discovery that carries
\* notification settings it raises AttributeError.
to_dict_raises(discovery) ==
    \E ns \in discovery.notification_settings : ns.form = "dict"

\* Discovery.to_dict: the notification settings become a dict.
to_dict(discovery) ==
    [discovery EXCEPT !.notification_settings =
        {[method |-> ns.method, form |-> "dict"] : ns \in discovery.notification_settings}]

NoTask == [pc |-> "idle"]

\* Discovery.to_dict drops the None fields; update_one({"$set": ...}) then
\* overwrites the fields that are left and keeps the others of the stored
\* document; with upsert=True a missing document is inserted.
set_fields(doc, fields) ==
    [f \in DOMAIN fields |->
        IF f \in OptionalFields /\ fields[f] = None THEN doc[f] ELSE fields[f]]

\* MongoDiscoveriesRepository.save (callers check to_dict_raises first)
save(coll, id, discovery) ==
    IF id \in DOMAIN coll
    THEN [coll EXCEPT ![id] = set_fields(coll[id], to_dict(discovery))]
    ELSE [i \in DOMAIN coll \cup {id} |-> IF i = id THEN to_dict(discovery) ELSE coll[i]]

insert_one(coll, id, doc) ==
    [i \in DOMAIN coll \cup {id} |-> IF i = id THEN doc ELSE coll[i]]

\* JobRequest.save of src/simod_http/app.py: request.json is rewritten whole.
request_save(coll, id, request) == insert_one(coll, id, to_dict(request))

\* Variant of save_status: the update_one is an upsert, a missing id gets a
\* document of the written fields.
save_status_upsert(coll, id, status, archive_url, t) ==
    LET d0 == IF id \in DOMAIN coll THEN coll[id] ELSE Discovery(status, None)
        d1 == [d0 EXCEPT !.status = status]
        d2 == IF status = RUNNING
              THEN [d1 EXCEPT !.started_timestamp = Some(t)]
              ELSE IF status \in {FAILED, DELETED, SUCCEEDED}
                   THEN [d1 EXCEPT !.finished_timestamp = Some(t)]
                   ELSE d1
        d3 == IF status = SUCCEEDED /\ archive_url # None
              THEN [d2 EXCEPT !.archive_url = archive_url]
              ELSE d2
    IN [i \in DOMAIN coll \cup {id} |-> IF i = id THEN d3 ELSE coll[i]]

\* MongoDiscoveriesRepository.save_status: a single update_one with upsert=False
save_status(coll, id, status, archive_url, t) ==
    IF id \notin DOMAIN coll THEN coll
    ELSE LET d0 == coll[id]
             d1 == [d0 EXCEPT !.status = status]
             d2 == IF status = RUNNING
                   THEN [d1 EXCEPT !.started_timestamp = Some(t)]
                   ELSE IF status \in {FAILED, DELETED, SUCCEEDED}
                        THEN [d1 EXCEPT !.finished_timestamp = Some(t)]
                        ELSE d1
             d3 == IF status = SUCCEEDED /\ archive_url # None
                   THEN [d2 EXCEPT !.archive_url = archive_url]
                   ELSE d2
         IN [coll EXCEPT ![id] = d3]

\* MongoDiscoveriesRepository.create: the document is inserted before the
\* output directory is made, so the stored document has no output_dir; the
\* returned object has.
create_document(discovery, t) == to_dict([discovery EXCEPT !.created_timestamp = Some(t)])

\* Variant of create_returned: the object handed back already carries the
\* status the dispatch will give it.
create_returned_dispatched(discovery, id, t) ==
    [discovery EXCEPT !.created_timestamp = Some(t), !.output_dir = Some(id),
                      !.status = PENDING]

create_returned(discovery, id, t) ==
    [discovery EXCEPT !.created_timestamp = Some(t), !.output_dir = Some(id)]

\* scheduler.py: schedule.every(n).seconds.do(task.delay) for the two
\* sweeper tasks; a job first runs n seconds after it was scheduled.
SweepKinds == {"mark", "clean"}

\* BrokerClient.__init__: self._retries = 5, self._retry_delay = 1
BrokerRetries == 5

\* the concurrent callers of save_status
Callers == 1..MaxCallers

interval(kind) ==
    IF kind = "mark" THEN discovery_expiration_timedelta
    ELSE discovery_results_cleaning_interval

Init ==
    /\ now = 0
    /\ next_id = 1
    /\ collection = << >>
    /\ dirs = {}
    /\ files = [i \in Ids |-> {}]
    /\ dispatch = [i \in Ids |-> NoTask]
    /\ published = {}
    /\ run = [i \in Ids |-> NoTask]
    /\ post = [i \in Ids |-> [k \in Slots |-> NoTask]]
    /\ notifier_calls = [i \in Ids |-> 0]
    /\ patches = 0
    /\ deletes = 0
    /\ deleting = {}
    /\ response = [op |-> "none", email |-> FALSE, code |-> 0]
    /\ sweeper = [next_run |-> [kind \in SweepKinds |-> interval(kind)],
                  tasks |-> [s \in SweepSlots |-> NoTask]]
    /\ broker_client = [retries |-> BrokerRetries, pc |-> "idle", calls |-> 0,
                        attempts |-> 0, slept |-> 0, last |-> "none",
                        outcome |-> "none", transport_failures |-> 0]
    /\ files_repository = [stored |-> {}, writes |-> 0, created |-> None]
    /\ status_calls = [base |-> None, calls |-> [c \in Callers |-> NoTask]]

\* ------------------------------------------------------------- the clock
Tick ==
    /\ now < MaxTime
    /\ next_id > 1
    /\ now' = now + 1
    /\ UNCHANGED <<next_id, collection, dirs, files, dispatch, published, run, post,
                   notifier_calls, patches, deletes, deleting, response, sweeper,
                   broker_client, files_repository, status_calls>>

\* ------------------------------------------------------------ submission
NewTask(variant, discovery) ==
    [pc |-> "start", via |-> variant, discovery |-> discovery]

\* POST /discoveries of main.py (create_discovery): an email is refused
\* before anything is stored; otherwise (the uploaded event log and
\* configuration being of a supported type) the Discovery is created and
\* the dispatch is queued as a background task, which runs after the answer.
create_discovery_broker(callback_url, email) ==
    IF email
    THEN /\ response' = [op |-> "create", email |-> email, code |-> 501]
         /\ UNCHANGED <<next_id, collection, dirs, dispatch>>
    ELSE /\ next_id \in Ids
         /\ LET ns == notification_settings_from_params(callback_url, email)
                discovery == Discovery(ACCEPTED, ns)
                returned == create_returned(discovery, next_id, now)
            IN /\ collection' = insert_one(collection, next_id, create_document(discovery, now))
               /\ dirs' = dirs \cup {next_id}
               /\ dispatch' = [dispatch EXCEPT ![next_id] = NewTask("broker", returned)]
               /\ response' = [op |-> "create", email |-> email, code |-> 202,
                               id |-> next_id, status |-> returned.status]
         /\ next_id' = next_id + 1

\* POST /discoveries/ of routes/discoveries.py (create_discovery): the
\* handler takes a callback URL only; the Discovery it returns is the answer.
create_discovery_celery(callback_url) ==
    /\ next_id \in Ids
    /\ LET ns == notification_settings_from_params(callback_url, FALSE)
           discovery == Discovery(ACCEPTED, ns)
           returned == create_returned(discovery, next_id, now)
       IN /\ collection' = insert_one(collection, next_id, create_document(discovery, now))
          /\ dirs' = dirs \cup {next_id}
          /\ dispatch' = [dispatch EXCEPT ![next_id] = NewTask("celery", returned)]
          /\ response' = [op |-> "create", email |-> FALSE, code |-> 202,
                          id |-> next_id, status |-> returned.status]
    /\ next_id' = next_id + 1

\* POST /discoveries of src/simod_http/router.py (create_discovery):
\* new_request_from_params makes the request and its output directory
\* first (JobRequest.empty); with an email the handler then assigns
\* RequestStatus.FAILURE, which the enumeration does not define, so the
\* handler ends in an AttributeError (500) with the directory left behind.
create_discovery_legacy(callback_url, email) ==
    /\ next_id \in Ids
    /\ next_id' = next_id + 1
    /\ dirs' = dirs \cup {next_id}
    /\ IF email
       THEN /\ response' = [op |-> "create", email |-> email, code |-> 500]
            /\ UNCHANGED <<collection, dispatch>>
       ELSE LET ns == notification_settings_from_params(callback_url, email)
                request == create_returned(Discovery(ACCEPTED, ns), next_id, now)
            IN /\ collection' = request_save(collection, next_id, request)
               /\ dispatch' = [dispatch EXCEPT ![next_id] = NewTask("legacy", request)]
               /\ response' = [op |-> "create", email |-> email, code |-> 202,
                               id |-> next_id, status |-> request.status]

Submit ==
    /\ \E variant \in Variants, callback_url \in BOOLEAN, email \in BOOLEAN :
          /\ (variant = "broker" /\ email) \/ next_id <= MaxDisc
          /\ CASE variant = "broker" -> create_discovery_broker(callback_url, email)
               [] variant = "celery" -> ~email /\ create_discovery_celery(callback_url)
               [] OTHER -> create_discovery_legacy(callback_url, email)
    /\ UNCHANGED <<now, files, published, run, post, notifier_calls, patches, deletes,
                   deleting, sweeper, broker_client, files_repository, status_calls>>

\* -------------------------------------------------------------- dispatch
\* main.py _process_post_discovery: publish, then save the object handed
\* over at submission with status PENDING; on an exception save it with
\* status FAILED, log and re-raise.
process_post_discovery_publish(id, ok) ==
    /\ dispatch[id].pc = "start" /\ dispatch[id].via = "broker"
    /\ IF ok
       THEN /\ published' = published \cup {id}
            /\ dispatch' = [dispatch EXCEPT ![id].pc = "save",
                                            ![id].discovery.status = PENDING]
            /\ UNCHANGED collection
       ELSE LET discovery == [dispatch[id].discovery EXCEPT !.status = FAILED]
            IN /\ collection' = save(collection, id, discovery)
               /\ dispatch' = [dispatch EXCEPT ![id].pc = "raised",
                                               ![id].discovery = discovery]
               /\ UNCHANGED published
    /\ UNCHANGED <<now, next_id, dirs, files, run, post, notifier_calls,
                   patches, deletes, deleting, response, sweeper,
                   files_repository, status_calls>>

process_post_discovery_save(id) ==
    /\ dispatch[id].pc = "save" /\ dispatch[id].via = "broker"
    /\ collection' = save(collection, id, dispatch[id].discovery)
    /\ dispatch' = [dispatch EXCEPT ![id].pc = "done"]
    /\ UNCHANGED <<now, next_id, dirs, files, published, run, post, notifier_calls,
                   patches, deletes, deleting, response, sweeper,
                   broker_client, files_repository, status_calls>>

\* routes/discoveries.py _pre_start_discovery: PENDING is saved before the
\* task is sent.
pre_start_discovery(id) ==
    /\ dispatch[id].pc = "start" /\ dispatch[id].via = "celery"
    /\ LET discovery == [dispatch[id].discovery EXCEPT !.output_dir = Some(id),
                                                       !.status = PENDING]
       IN /\ collection' = save(collection, id, discovery)
          /\ dispatch' = [dispatch EXCEPT ![id].pc = "apply", ![id].discovery = discovery]
    /\ UNCHANGED <<now, next_id, dirs, files, published, run, post, notifier_calls,
                   patches, deletes, deleting, response, sweeper,
                   broker_client, files_repository, status_calls>>

\* Variant of start_discovery: the exception of apply_async is swallowed
\* without storing FAILED.
start_discovery_swallowed(id, ok) ==
    /\ dispatch[id].pc = "apply" /\ dispatch[id].via = "celery"
    /\ IF ok
       THEN /\ published' = published \cup {id}
            /\ run' = [run EXCEPT ![id] = [pc |-> "queued"]]
       ELSE UNCHANGED <<published, run>>
    /\ dispatch' = [dispatch EXCEPT ![id].pc = "done"]
    /\ UNCHANGED <<now, next_id, collection, dirs, files, post, notifier_calls,
                   patches, deletes, deleting, response, sweeper,
                   broker_client, files_repository, status_calls>>

\* routes/discoveries.py _start_discovery inside _process_new_discovery:
\* apply_async queues run_discovery (linked to post_process_discovery_result);
\* if it raises, FAILED and finished_timestamp are saved and the error is
\* logged, not re-raised.
start_discovery(id, ok) ==
    /\ dispatch[id].pc = "apply" /\ dispatch[id].via = "celery"
    /\ IF ok
       THEN /\ published' = published \cup {id}
            /\ run' = [run EXCEPT ![id] = [pc |-> "queued"]]
            /\ dispatch' = [dispatch EXCEPT ![id].pc = "done"]
            /\ UNCHANGED collection
       ELSE LET discovery == [dispatch[id].discovery EXCEPT
                                 !.status = FAILED, !.finished_timestamp = Some(now)]
            IN /\ collection' = save(collection, id, discovery)
               /\ dispatch' = [dispatch EXCEPT ![id].pc = "done",
                                               ![id].discovery = discovery]
               /\ UNCHANGED <<published, run>>
    /\ UNCHANGED <<now, next_id, dirs, files, post, notifier_calls,
                   patches, deletes, deleting, response, sweeper,
                   broker_client, files_repository, status_calls>>

\* src/simod_http/router.py process_post_request: publish_request returns
\* silently when the client is not ready; the handler then stores PENDING.
\* When the publish raises, the except branch assigns the undefined
\* RequestStatus.FAILURE: the finally branch saves the request as it is and
\* the AttributeError leaves the task.
process_post_request_publish(id, outcome) ==
    /\ dispatch[id].pc = "start" /\ dispatch[id].via = "legacy"
    /\ CASE outcome = "sent" ->
              /\ published' = published \cup {id}
              /\ dispatch' = [dispatch EXCEPT ![id].pc = "save",
                                              ![id].discovery.status = PENDING]
              /\ UNCHANGED collection
         [] outcome = "not_ready" ->
              /\ dispatch' = [dispatch EXCEPT ![id].pc = "save",
                                              ![id].discovery.status = PENDING]
              /\ UNCHANGED <<collection, published>>
         [] OTHER ->
              /\ collection' = request_save(collection, id, dispatch[id].discovery)
              /\ dispatch' = [dispatch EXCEPT ![id].pc = "raised"]
              /\ UNCHANGED published
    /\ UNCHANGED <<now, next_id, dirs, files, run, post, notifier_calls,
                   patches, deletes, deleting, response, sweeper,
                   broker_client, files_repository, status_calls>>

process_post_request_save(id) ==
    /\ dispatch[id].pc = "save" /\ dispatch[id].via = "legacy"
    /\ collection' = request_save(collection, id, dispatch[id].discovery)
    /\ dispatch' = [dispatch EXCEPT ![id].pc = "done"]
    /\ UNCHANGED <<now, next_id, dirs, files, published, run, post, notifier_calls,
                   patches, deletes, deleting, response, sweeper,
                   broker_client, files_repository, status_calls>>

Dispatch ==
    \E id \in Ids :
        \/ \E ok \in BOOLEAN :
              process_post_discovery_publish(id, ok) /\ UNCHANGED broker_client
        \/ process_post_discovery_save(id)
        \/ pre_start_discovery(id)
        \/ \E ok \in BOOLEAN : start_discovery(id, ok)
        \/ \E outcome \in {"sent", "not_ready", "raise"} : process_post_request_publish(id, outcome)
        \/ process_post_request_save(id)

\* ---------------------------------------------------------- worker tasks
\* worker.py run_discovery: load the Discovery, store RUNNING and
\* started_timestamp with a full save, run the subprocess (check=True: a
\* non-zero exit raises CalledProcessError and nothing is returned).
run_discovery_get(id) ==
    /\ run[id].pc = "queued"
    /\ run' = [run EXCEPT ![id] =
                  IF id \in DOMAIN collection
                  THEN [pc |-> "save", discovery |-> collection[id]]
                  ELSE [pc |-> "raised"]]
    /\ UNCHANGED <<now, next_id, collection, dirs, files, dispatch, published, post,
                   notifier_calls, patches, deletes, deleting, response, sweeper,
                   broker_client, files_repository, status_calls>>

run_discovery_save(id) ==
    /\ run[id].pc = "save"
    /\ LET discovery == [run[id].discovery EXCEPT !.started_timestamp = Some(now),
                                                  !.status = RUNNING]
       IN IF to_dict_raises(discovery)
          THEN /\ run' = [run EXCEPT ![id] = [pc |-> "raised"]]
               /\ UNCHANGED collection
          ELSE /\ collection' = save(collection, id, discovery)
               /\ run' = [run EXCEPT ![id] = [pc |-> "subprocess"]]
    /\ UNCHANGED <<now, next_id, dirs, files, dispatch, published, post,
                   notifier_calls, patches, deletes, deleting, response, sweeper,
                   broker_client, files_repository, status_calls>>

\* worker.py _start_discovery_subprocess: the external tool leaves
\* output_dir/best_result ("result"), or exits 0 without it ("empty"), or
\* exits non-zero ("error").
run_discovery_subprocess(id, outcome) ==
    /\ run[id].pc = "subprocess"
    /\ CASE outcome = "result" ->
              /\ id \in dirs
              /\ files' = [files EXCEPT ![id] = @ \cup {BestResult}]
              /\ run' = [run EXCEPT ![id] = [pc |-> "returned"]]
         [] outcome = "empty" ->
              /\ run' = [run EXCEPT ![id] = [pc |-> "returned"]]
              /\ UNCHANGED files
         [] OTHER ->
              /\ run' = [run EXCEPT ![id] = [pc |-> "raised"]]
              /\ UNCHANGED files
    /\ UNCHANGED <<now, next_id, collection, dirs, dispatch, published, post,
                   notifier_calls, patches, deletes, deleting, response, sweeper,
                   broker_client, files_repository, status_calls>>

\* worker.py _archive_discovery_results: make_archive of best_result to
\* output_dir/results.tar.gz, then rmtree(best_result); raises when
\* best_result is missing or the file system fails.
archive_possible(id, io_ok) == io_ok /\ id \in dirs /\ BestResult \in files[id]

\* Variant of archive_discovery_results: best_result is not removed.
archive_keeps_best_result(names) == names \cup {make_archive_name("results")}

archive_discovery_results(names) == (names \ {BestResult}) \cup {make_archive_name("results")}

\* worker.py post_process_discovery_result, delivered with a return code
\* once run_discovery has ended (its link, a redelivery, or a report sent to
\* the task by name): first the load of the Discovery, whose status as
\* loaded the task record keeps in "observed".
post_process_get(id, k, return_code) ==
    /\ run[id].pc \in {"returned", "raised"}
    /\ post[id][k].pc = "idle"
    /\ \A j \in Slots : j < k => post[id][j].pc # "idle"
    /\ post' = [post EXCEPT ![id][k] =
                  IF id \notin DOMAIN collection
                  THEN [pc |-> "raised"]
                  ELSE [pc |-> IF return_code # 0 THEN "save_failed" ELSE "archive",
                        observed |-> collection[id].status,
                        discovery |-> collection[id]]]
    /\ UNCHANGED <<now, next_id, collection, dirs, files, dispatch, published, run,
                   notifier_calls, patches, deletes, deleting, response, sweeper,
                   broker_client, files_repository, status_calls>>

\* return_code != 0: FAILED is saved and "" returned.
post_process_save_failed(id, k) ==
    /\ post[id][k].pc = "save_failed"
    /\ LET discovery == [post[id][k].discovery EXCEPT !.status = FAILED]
       IN IF to_dict_raises(discovery)
          THEN /\ post' = [post EXCEPT ![id][k] = [pc |-> "raised"]]
               /\ UNCHANGED collection
          ELSE /\ collection' = save(collection, id, discovery)
               /\ post' = [post EXCEPT ![id][k] = [pc |-> "done"]]
    /\ UNCHANGED <<now, next_id, dirs, files, dispatch, published, run,
                   notifier_calls, patches, deletes, deleting, response, sweeper,
                   broker_client, files_repository, status_calls>>

\* return_code == 0: SUCCEEDED and finished_timestamp are set on the copy,
\* then the results are archived and the archive URL computed; if that
\* raises the copy becomes FAILED.
post_process_archive(id, k, io_ok) ==
    /\ post[id][k].pc = "archive"
    /\ LET d0 == [post[id][k].discovery EXCEPT !.status = SUCCEEDED,
                                               !.finished_timestamp = Some(now)]
       IN IF archive_possible(id, io_ok)
          THEN LET archive_name == make_archive_name("results")
               IN /\ files' = [files EXCEPT ![id] = archive_discovery_results(@)]
                  /\ post' = [post EXCEPT ![id][k] =
                        [pc |-> "save", raising |-> FALSE,
                         observed |-> post[id][k].observed,
                         discovery |-> [d0 EXCEPT !.archive_url =
                                           Some(url_path_for(id, archive_name))]]]
          ELSE /\ post' = [post EXCEPT ![id][k] =
                        [pc |-> "save", raising |-> TRUE,
                         observed |-> post[id][k].observed,
                         discovery |-> [d0 EXCEPT !.status = FAILED]]]
               /\ UNCHANGED files
    /\ UNCHANGED <<now, next_id, collection, dirs, dispatch, published, run,
                   notifier_calls, patches, deletes, deleting, response, sweeper,
                   broker_client, files_repository, status_calls>>

\* the finally branch: the copy is saved; an archiving exception then
\* leaves the task.
post_process_save(id, k) ==
    /\ post[id][k].pc = "save"
    /\ LET discovery == post[id][k].discovery
       IN IF to_dict_raises(discovery)
          THEN /\ post' = [post EXCEPT ![id][k] = [pc |-> "raised"]]
               /\ UNCHANGED collection
          ELSE /\ collection' = save(collection, id, discovery)
               /\ post' = [post EXCEPT ![id][k] =
                     IF post[id][k].raising
                     THEN [pc |-> "raised"]
                     ELSE [pc |-> "notify", observed |-> post[id][k].observed,
                           discovery |-> discovery]]
    /\ UNCHANGED <<now, next_id, dirs, files, dispatch, published, run,
                   notifier_calls, patches, deletes, deleting, response, sweeper,
                   broker_client, files_repository, status_calls>>

\* worker.py _resolve_notification: returns at once without settings,
\* posts to the callback URL (requests.post may raise), raises NotSupported
\* for email.
resolve_notification_raises(notification_settings, delivered) ==
    \E ns \in notification_settings :
        \/ ns.form = "dict"
        \/ ns.method = HTTP /\ ~delivered
        \/ ns.method # HTTP

\* the notification: if _resolve_notification returns, notified is set and
\* the copy saved once more; an exception is logged.
post_process_notify(id, k, delivered) ==
    /\ post[id][k].pc = "notify"
    /\ notifier_calls' = [notifier_calls EXCEPT ![id] = @ + 1]
    /\ post' = [post EXCEPT ![id][k] = [pc |-> "done"]]
    /\ LET discovery == [post[id][k].discovery EXCEPT !.notified = TRUE]
       IN IF resolve_notification_raises(discovery.notification_settings, delivered)
             \/ to_dict_raises(discovery)
          THEN UNCHANGED collection
          ELSE collection' = save(collection, id, discovery)
    /\ UNCHANGED <<now, next_id, dirs, files, dispatch, published, run,
                   patches, deletes, deleting, response, sweeper,
                   broker_client, files_repository, status_calls>>

Worker ==
    \E id \in Ids :
        \/ run_discovery_get(id)
        \/ run_discovery_save(id)
        \/ \E outcome \in {"result", "empty", "error"} : run_discovery_subprocess(id, outcome)
        \/ \E k \in Slots :
              \/ \E return_code \in {0, 1} : post_process_get(id, k, return_code)
              \/ post_process_save_failed(id, k)
              \/ \E io_ok \in BOOLEAN : post_process_archive(id, k, io_ok)
              \/ post_process_save(id, k)
              \/ \E delivered \in BOOLEAN : post_process_notify(id, k, delivered)

\* ------------------------------------------------------- status by HTTP
\* The handlers of routes/discovery.py ("celery") and of main.py ("broker").
HttpVariants == {"celery", "broker"}

\* A discovery_id that is no ObjectId: ObjectId(discovery_id) raises InvalidId.
InvalidId == 0

RequestIds == Ids \cup {InvalidId}

\* The answer of a handler that raised NotFound (404) or
\* InternalServerError (500) with the discovery_id.
error_response(op, code, id) == [op |-> op, email |-> FALSE, code |-> code, id |-> id]

\* The answer 200 with the id and a status.
status_response(op, id, status) ==
    [op |-> op, email |-> FALSE, code |-> 200, id |-> id, status |-> status]

\* The load of the Discovery at the head of a handler, as the code the
\* exception's answer carries (200 when the Discovery is loaded).
\* routes/discovery.py _get_discovery re-raises NotFound and turns every
\* other exception into InternalServerError; main.py raises NotFound inside
\* the try whose except Exception turns it into InternalServerError.
get_discovery_code(variant, coll, discovery_id) ==
    IF discovery_id = InvalidId THEN 500
    ELSE IF discovery_id \in DOMAIN coll THEN 200
    ELSE IF variant = "celery" THEN 404
    ELSE 500

\* PATCH /discoveries/{discovery_id}: save_status with the status of the
\* payload (an exception answers 500). routes/discovery.py then loads the
\* Discovery for the answer; main.py answers 200 with the payload's status.
patch_discovery(variant, id, status) ==
    /\ patches < MaxPatch
    /\ patches' = patches + 1
    /\ collection' = save_status(collection, id, status,
                                 make_results_url_for(id, status), now)
    /\ response' =
          IF id = InvalidId THEN error_response("patch", 500, id)
          ELSE IF variant = "broker" THEN status_response("patch", id, status)
          ELSE IF get_discovery_code(variant, collection', id) = 200
               THEN status_response("patch", id, collection'[id].status)
               ELSE error_response("patch", get_discovery_code(variant, collection', id), id)
    /\ UNCHANGED <<now, next_id, dirs, files, dispatch, published, run, post,
                   notifier_calls, deletes, deleting, sweeper,
                   broker_client, files_repository, status_calls>>

\* DELETE /discoveries/{discovery_id}: the Discovery is loaded (the handler
\* ends with the error's answer when that fails), then DELETED is stored
\* with save_status.
delete_discovery_get(variant, id) ==
    /\ id \notin deleting
    /\ deletes < MaxDelete
    /\ deletes' = deletes + 1
    /\ IF get_discovery_code(variant, collection, id) = 200
       THEN /\ deleting' = deleting \cup {id}
            /\ UNCHANGED response
       ELSE /\ response' = error_response("delete",
                                             get_discovery_code(variant, collection, id), id)
            /\ UNCHANGED deleting
    /\ UNCHANGED <<now, next_id, collection, dirs, files, dispatch, published, run,
                   post, notifier_calls, patches, sweeper,
                   broker_client, files_repository, status_calls>>

\* Variant of delete_discovery_save: DELETED is answered without being stored.
delete_discovery_answer_only(id) ==
    /\ id \in deleting
    /\ deleting' = deleting \ {id}
    /\ response' = [op |-> "delete", email |-> FALSE, code |-> 200,
                    id |-> id, status |-> DELETED]
    /\ UNCHANGED <<now, next_id, collection, dirs, files, dispatch, published, run, post,
                   notifier_calls, patches, deletes, sweeper,
                   broker_client, files_repository, status_calls>>

\* the second half of delete_discovery: save_status, then the answer with
\* the id and DELETED; the output directory is not touched.
delete_discovery_save(id) ==
    /\ id \in deleting
    /\ collection' = save_status(collection, id, DELETED, None, now)
    /\ deleting' = deleting \ {id}
    /\ response' = [op |-> "delete", email |-> FALSE, code |-> 200,
                    id |-> id, status |-> DELETED]
    /\ UNCHANGED <<now, next_id, dirs, files, dispatch, published, run, post,
                   notifier_calls, patches, deletes, sweeper,
                   broker_client, files_repository, status_calls>>

\* GET /discoveries/{discovery_id}: the loaded Discovery is the answer.
get_discovery(variant, discovery_id) ==
    /\ response' =
          IF get_discovery_code(variant, collection, discovery_id) = 200
          THEN status_response("get", discovery_id, collection[discovery_id].status)
          ELSE error_response("get", get_discovery_code(variant, collection, discovery_id),
                              discovery_id)
    /\ UNCHANGED <<now, next_id, collection, dirs, files, dispatch, published, run, post,
                   notifier_calls, patches, deletes, deleting, sweeper,
                   broker_client, files_repository, status_calls>>

\* GET /discoveries/{discovery_id}/{file_name}: InternalServerError when the
\* loaded Discovery has no output_dir, NotFound when the file does not exist,
\* otherwise the file.
get_discovery_file(variant, discovery_id, file_name) ==
    /\ response' =
          IF get_discovery_code(variant, collection, discovery_id) # 200
          THEN error_response("get_file",
                              get_discovery_code(variant, collection, discovery_id),
                              discovery_id)
          ELSE IF collection[discovery_id].output_dir = None
          THEN error_response("get_file", 500, discovery_id)
          ELSE IF discovery_id \in dirs /\ file_name \in files[discovery_id]
          THEN [op |-> "get_file", email |-> FALSE, code |-> 200, id |-> discovery_id,
                file |-> file_name]
          ELSE error_response("get_file", 404, discovery_id)
    /\ UNCHANGED <<now, next_id, collection, dirs, files, dispatch, published, run, post,
                   notifier_calls, patches, deletes, deleting, sweeper,
                   broker_client, files_repository, status_calls>>

Http ==
    \E id \in Ids :
        \/ \E variant \in HttpVariants, status \in DiscoveryStatus :
              patch_discovery(variant, id, status)
        \/ \E variant \in HttpVariants : delete_discovery_get(variant, id)
        \/ delete_discovery_save(id)

\* ---------------------------------------------------------- the sweeper
\* repository.get_all: the documents in the order find({}) returns them,
\* taken to be the order of insertion.
RECURSIVE ids_in_order(_)
ids_in_order(S) ==
    IF S = {} THEN << >>
    ELSE LET first == CHOOSE i \in S : \A j \in S : i <= j
         IN <<first>> \o ids_in_order(S \ {first})

\* scheduler.py run_scheduler: run_pending calls task.delay for a job that
\* is due and schedules the job's next run; the call only queues the task.
schedule_run_pending(kind, s) ==
    /\ now >= sweeper.next_run[kind]
    /\ sweeper.tasks[s].pc = "idle"
    /\ \A r \in SweepSlots : r < s => sweeper.tasks[r].pc # "idle"
    /\ sweeper' = [sweeper EXCEPT !.next_run[kind] = now + interval(kind),
                                  !.tasks[s] = [pc |-> "queued", kind |-> kind]]
    /\ UNCHANGED <<now, next_id, collection, dirs, files, dispatch, published, run, post,
                   notifier_calls, patches, deletes, deleting, response,
                   broker_client, files_repository, status_calls>>

\* mark_expired_discoveries / clean_expired_discovery_results: a worker
\* takes the task and loads every Discovery with repository.get_all.
sweep_get_all(s) ==
    /\ sweeper.tasks[s].pc = "queued"
    /\ sweeper' = [sweeper EXCEPT !.tasks[s] =
                      IF DOMAIN collection = {}
                      THEN [pc |-> "done", kind |-> sweeper.tasks[s].kind, todo |-> << >>]
                      ELSE [pc |-> "scan", kind |-> sweeper.tasks[s].kind,
                            todo |-> ids_in_order(DOMAIN collection),
                            docs |-> collection]]
    /\ UNCHANGED <<now, next_id, collection, dirs, files, dispatch, published, run, post,
                   notifier_calls, patches, deletes, deleting, response,
                   broker_client, files_repository, status_calls>>

\* the task record after the Discovery at the head of the scan: the loop
\* goes on with the loaded Discoveries that are left, or the task returns
sweep_continue(task) ==
    IF Tail(task.todo) = << >>
    THEN [pc |-> "done", kind |-> task.kind, todo |-> << >>]
    ELSE [pc |-> "scan", kind |-> task.kind, todo |-> Tail(task.todo),
          docs |-> [i \in DOMAIN task.docs \ {Head(task.todo)} |-> task.docs[i]]]

\* the task record when an exception leaves the loop: the Discoveries that
\* are left in todo are not processed
sweep_raise(task) == [pc |-> "raised", kind |-> task.kind, todo |-> Tail(task.todo)]

\* has_expired of mark_expired_discoveries
has_expired(finished_timestamp, t) ==
    \E finished \in finished_timestamp : finished + discovery_expiration_timedelta < t

\* mark_expired_discoveries, one Discovery of the loop: skipped without
\* finished_timestamp; EXPIRED is saved when it has expired and is neither
\* EXPIRED nor DELETED; an exception of repository.save leaves the task.
mark_expired_step(s) ==
    /\ sweeper.tasks[s].pc = "scan" /\ sweeper.tasks[s].kind = "mark"
    /\ LET task == sweeper.tasks[s]
           id == Head(task.todo)
           loaded == task.docs[id]
           discovery == [loaded EXCEPT !.status = EXPIRED]
       IN IF /\ loaded.finished_timestamp # None
             /\ has_expired(loaded.finished_timestamp, now)
             /\ loaded.status \notin {EXPIRED, DELETED}
          THEN IF to_dict_raises(discovery)
               THEN /\ sweeper' = [sweeper EXCEPT !.tasks[s] = sweep_raise(task)]
                    /\ UNCHANGED collection
               ELSE /\ collection' = save(collection, id, discovery)
                    /\ sweeper' = [sweeper EXCEPT !.tasks[s] = sweep_continue(task)]
          ELSE /\ sweeper' = [sweeper EXCEPT !.tasks[s] = sweep_continue(task)]
               /\ UNCHANGED collection
    /\ UNCHANGED <<now, next_id, dirs, files, dispatch, published, run, post,
                   notifier_calls, patches, deletes, deleting, response,
                   broker_client, files_repository, status_calls>>

\* worker.py _remove_fs_directories: rmtree is called when output_dir is set
\* and exists
rmtree_called(discovery, id) == discovery.output_dir # None /\ id \in dirs

\* clean_expired_discovery_results, one Discovery of the loop: skipped
\* unless EXPIRED; the output directory is removed (an exception of rmtree
\* is logged and the Discovery skipped), then DELETED is saved; an exception
\* of repository.save leaves the task.
clean_expired_step(s, fs_ok) ==
    /\ sweeper.tasks[s].pc = "scan" /\ sweeper.tasks[s].kind = "clean"
    /\ LET task == sweeper.tasks[s]
           id == Head(task.todo)
           loaded == task.docs[id]
           discovery == [loaded EXCEPT !.status = DELETED]
       IN IF loaded.status # EXPIRED
          THEN /\ sweeper' = [sweeper EXCEPT !.tasks[s] = sweep_continue(task)]
               /\ UNCHANGED <<collection, dirs, files>>
          ELSE IF rmtree_called(loaded, id) /\ ~fs_ok
          THEN /\ sweeper' = [sweeper EXCEPT !.tasks[s] = sweep_continue(task)]
               /\ UNCHANGED <<collection, dirs, files>>
          ELSE /\ dirs' = IF rmtree_called(loaded, id) THEN dirs \ {id} ELSE dirs
               /\ files' = IF rmtree_called(loaded, id)
                           THEN [files EXCEPT ![id] = {}] ELSE files
               /\ IF to_dict_raises(discovery)
                  THEN /\ sweeper' = [sweeper EXCEPT !.tasks[s] = sweep_raise(task)]
                       /\ UNCHANGED collection
                  ELSE /\ collection' = save(collection, id, discovery)
                       /\ sweeper' = [sweeper EXCEPT !.tasks[s] = sweep_continue(task)]
    /\ UNCHANGED <<now, next_id, dispatch, published, run, post,
                   notifier_calls, patches, deletes, deleting, response,
                   broker_client, files_repository, status_calls>>

SweeperTask(s) ==
    \/ \E kind \in SweepKinds : schedule_run_pending(kind, s)
    \/ sweep_get_all(s)
    \/ mark_expired_step(s)
    \/ \E fs_ok \in BOOLEAN : clean_expired_step(s, fs_ok)

Sweeper == \E s \in SweepSlots : SweeperTask(s)

\* The clock, the submissions and the dispatches of the routers of
\* routes/, bounded for the sweeper's specification.
TickSweep ==
    /\ now < MaxSweepTime
    /\ next_id > 1
    /\ now' = now + 1
    /\ UNCHANGED <<next_id, collection, dirs, files, dispatch, published, run, post,
                   notifier_calls, patches, deletes, deleting, response, sweeper,
                   broker_client, files_repository, status_calls>>

SubmitSweep(max) ==
    /\ next_id <= max
    /\ \E callback_url \in BOOLEAN : create_discovery_celery(callback_url)
    /\ UNCHANGED <<now, files, published, run, post, notifier_calls, patches, deletes,
                   deleting, sweeper, broker_client, files_repository, status_calls>>

DispatchSweep ==
    \E id \in Ids :
        \/ pre_start_discovery(id)
        \/ \E ok \in BOOLEAN : start_discovery(id, ok)

PatchSweep == \E id \in Ids : \E status \in DiscoveryStatus : patch_discovery("celery", id, status)

\* ------------------------------------------------------ the broker client
\* BrokerClient.connect is called (the budget self._retries is what the
\* calls before have left).
connect_call ==
    /\ broker_client.pc = "idle"
    /\ broker_client.calls < MaxConnect
    /\ broker_client' = [broker_client EXCEPT !.pc = "connecting", !.calls = @ + 1,
                                              !.attempts = 0, !.slept = 0,
                                              !.last = "none", !.outcome = "none"]
    /\ UNCHANGED <<now, next_id, collection, dirs, files, dispatch, published, run, post,
                   notifier_calls, patches, deletes, deleting, response, sweeper,
                   files_repository, status_calls>>

\* Variant of connect_attempt: the budget is tested with >= 0.
connect_attempt_once_more(result) ==
    /\ broker_client.pc = "connecting"
    /\ broker_client' =
          CASE result = "ok" ->
                 [broker_client EXCEPT !.attempts = @ + 1, !.last = result,
                                       !.retries = BrokerRetries,
                                       !.pc = "idle", !.outcome = "returned"]
            [] result = "error" ->
                 [broker_client EXCEPT !.attempts = @ + 1, !.last = result,
                                       !.pc = "idle", !.outcome = "raised"]
            [] OTHER ->
                 IF broker_client.retries - 1 >= 0
                 THEN [broker_client EXCEPT !.attempts = @ + 1, !.last = result,
                                            !.retries = @ - 1, !.slept = @ + 1]
                 ELSE [broker_client EXCEPT !.attempts = @ + 1, !.last = result,
                                            !.retries = @ - 1,
                                            !.pc = "idle", !.outcome = "raised"]
    /\ UNCHANGED <<now, next_id, collection, dirs, files, dispatch, published, run, post,
                   notifier_calls, patches, deletes, deleting, response, sweeper,
                   files_repository, status_calls>>

\* One pass through the try of BrokerClient.connect: the connection, the
\* channel and the exchange are set up ("ok": the budget is reset and the
\* call returns, through every level of the recursion), or
\* AMQPConnectionError is raised ("connection_error": the budget loses one,
\* and the call sleeps and connects again while it is positive, otherwise
\* raises RuntimeError), or another exception leaves the call ("error").
connect_attempt(result) ==
    /\ broker_client.pc = "connecting"
    /\ broker_client' =
          CASE result = "ok" ->
                 [broker_client EXCEPT !.attempts = @ + 1, !.last = result,
                                       !.retries = BrokerRetries,
                                       !.pc = "idle", !.outcome = "returned"]
            [] result = "error" ->
                 [broker_client EXCEPT !.attempts = @ + 1, !.last = result,
                                       !.pc = "idle", !.outcome = "raised"]
            [] OTHER ->
                 IF broker_client.retries - 1 > 0
                 THEN [broker_client EXCEPT !.attempts = @ + 1, !.last = result,
                                            !.retries = @ - 1, !.slept = @ + 1]
                 ELSE [broker_client EXCEPT !.attempts = @ + 1, !.last = result,
                                            !.retries = @ - 1,
                                            !.pc = "idle", !.outcome = "raised"]
    /\ UNCHANGED <<now, next_id, collection, dirs, files, dispatch, published, run, post,
                   notifier_calls, patches, deletes, deleting, response, sweeper,
                   files_repository, status_calls>>

\* BrokerClient.publish_discovery inside _process_post_discovery, the broker
\* having transport_failures consecutive transport failures in store for
\* the call: basic_publish_discovery opens one connection and publishes
\* once, so the call publishes when there is none and raises otherwise.
publish_discovery(id, transport_failures) ==
    /\ process_post_discovery_publish(id, transport_failures = 0)
    /\ broker_client' = [broker_client EXCEPT !.transport_failures = transport_failures]

SubmitBroker ==
    /\ \E callback_url \in BOOLEAN, email \in BOOLEAN :
          /\ email \/ next_id <= MaxDisc
          /\ create_discovery_broker(callback_url, email)
    /\ UNCHANGED <<now, files, published, run, post, notifier_calls, patches, deletes,
                   deleting, sweeper, broker_client, files_repository, status_calls>>

Broker ==
    \/ connect_call
    \/ \E result \in {"ok", "connection_error", "error"} : connect_attempt(result)
    \/ \E id \in Ids :
          \/ \E transport_failures \in 0..MaxFailures : publish_discovery(id, transport_failures)
          \/ process_post_discovery_save(id)

\* --------------------------------------------------- the files repository
\* The uploaded contents and the suffixes the handlers pass: the suffixes
\* of the event log's file name joined ("" for a name without one, ".csv",
\* ".tar.gz"), ".yaml" for a configuration. A suffix is the sequence of its
\* dot-separated parts.
Contents == {"log_a", "log_b"}

Suffixes == {<< >>, <<".csv">>, <<".yaml">>, <<".tar", ".gz">>}

\* files_repository.py compute_sha256: hashlib.sha256(content).hexdigest(),
\* a digest per content.
compute_sha256(content) == IF content = "log_a" THEN "2f5c" ELSE "9e1b"

\* f"{file_hash}{suffix}": the name is the hash followed by the parts of
\* the suffix.
file_name_of(file_hash, suffix) == <<file_hash>> \o suffix

\* pathlib's Path.stem: the name without its last suffix.
stem(file_name) ==
    IF Len(file_name) > 1 THEN SubSeq(file_name, 1, Len(file_name) - 1) ELSE file_name

\* FileSystemFilesRepository.get_by_sha256: the File of a stored file whose
\* stem is the hash (iterdir gives no order: any of them), none when the
\* set is empty.
get_by_sha256(stored, sha256) ==
    {[file_name |-> f.file_name, content |-> f.content, sha256 |-> sha256, id |-> sha256] :
        f \in {g \in stored : stem(g.file_name) = <<sha256>>}}

\* FileSystemFilesRepository.does_exist
does_exist(stored, sha256) == get_by_sha256(stored, sha256) # {}

\* FileSystemFilesRepository.create: the File is built from the content's
\* hash and the suffix; the content is written unless a file of that name
\* exists.
FileSystemFilesRepository_create(content, suffix) ==
    /\ files_repository.writes < MaxWrites
    /\ LET file_hash == compute_sha256(content)
           file_name == file_name_of(file_hash, suffix)
           new_file == [file_name |-> file_name, content |-> content,
                        sha256 |-> file_hash, id |-> file_hash]
       IN files_repository' =
             IF \A f \in files_repository.stored : f.file_name # file_name
             THEN [stored |-> files_repository.stored
                              \cup {[file_name |-> file_name, content |-> content]},
                   writes |-> files_repository.writes + 1,
                   created |-> Some(new_file)]
             ELSE [files_repository EXCEPT !.created = Some(new_file)]
    /\ UNCHANGED <<now, next_id, collection, dirs, files, dispatch, published, run, post,
                   notifier_calls, patches, deletes, deleting, response, sweeper,
                   broker_client, status_calls>>

\* FileSystemFilesRepository.delete: the file that get_by_id found is
\* unlinked; nothing happens when none was found.
FileSystemFilesRepository_delete(file_id) ==
    /\ \E found_file \in get_by_sha256(files_repository.stored, file_id) :
          files_repository' =
             [files_repository EXCEPT !.stored =
                 {f \in @ : f.file_name # found_file.file_name}]
    /\ UNCHANGED <<now, next_id, collection, dirs, files, dispatch, published, run, post,
                   notifier_calls, patches, deletes, deleting, response, sweeper,
                   broker_client, status_calls>>

NextFiles ==
    \/ \E content \in Contents, suffix \in Suffixes :
          FileSystemFilesRepository_create(content, suffix)
    \/ \E content \in Contents : FileSystemFilesRepository_delete(compute_sha256(content))

SpecFiles == Init /\ [][NextFiles]_vars

\* ------------------------------------------- concurrent status updates
\* MongoDiscoveriesRepository.save_status, first half: updated_object is
\* built from the status, the archive URL and the clock. The calls are those
\* of handlers that run once the dispatch of the Discovery has ended; the
\* document as it was before the first of them is kept in base.
save_status_build(c, id, status, archive_url) ==
    /\ status_calls.calls[c].pc = "idle"
    /\ \A b \in Callers : b < c => status_calls.calls[b].pc # "idle"
    /\ id \in DOMAIN collection
    /\ dispatch[id].pc \in {"done", "raised"}
    /\ status_calls' =
          [base |-> IF status_calls.base = None
                    THEN Some([id |-> id, doc |-> collection[id]])
                    ELSE status_calls.base,
           calls |-> [status_calls.calls EXCEPT ![c] =
                         [pc |-> "built", id |-> id, status |-> status,
                          archive_url |-> archive_url, t |-> now]]]
    /\ UNCHANGED <<now, next_id, collection, dirs, files, dispatch, published, run, post,
                   notifier_calls, patches, deletes, deleting, response, sweeper,
                   broker_client, files_repository>>

\* Variant of save_status_update: the document read before the calls is
\* written back whole with the call's fields (a replace instead of $set).
save_status_replace(c) ==
    /\ status_calls.calls[c].pc = "built"
    /\ LET call == status_calls.calls[c]
       IN \E b \in status_calls.base :
             collection' = [collection EXCEPT ![call.id] =
                 save_status([i \in {call.id} |-> b.doc], call.id, call.status,
                             call.archive_url, call.t)[call.id]]
    /\ status_calls' = [status_calls EXCEPT !.calls[c].pc = "done"]
    /\ UNCHANGED <<now, next_id, dirs, files, dispatch, published, run, post,
                   notifier_calls, patches, deletes, deleting, response, sweeper,
                   broker_client, files_repository>>

\* MongoDiscoveriesRepository.save_status, second half: the one update_one
\* with $set of updated_object.
save_status_update(c) ==
    /\ status_calls.calls[c].pc = "built"
    /\ LET call == status_calls.calls[c]
       IN collection' = save_status(collection, call.id, call.status,
                                    call.archive_url, call.t)
    /\ status_calls' = [status_calls EXCEPT !.calls[c].pc = "done"]
    /\ UNCHANGED <<now, next_id, dirs, files, dispatch, published, run, post,
                   notifier_calls, patches, deletes, deleting, response, sweeper,
                   broker_client, files_repository>>

StatusCalls ==
    \E c \in Callers :
        \/ \E id \in Ids, status \in DiscoveryStatus, with_url \in BOOLEAN :
              save_status_build(c, id, status,
                                IF with_url THEN make_results_url_for(id, SUCCEEDED) ELSE None)
        \/ save_status_update(c)

NextStatus ==
    \/ TickSweep
    \/ SubmitSweep(MaxDisc)
    \/ DispatchSweep
    \/ StatusCalls

SpecStatus == Init /\ [][NextStatus]_vars

Next ==
    \/ Tick
    \/ Submit
    \/ Dispatch
    \/ Worker
    \/ Http

Spec == Init /\ [][Next]_vars

\* The sweeper with the submissions, dispatches and PATCH requests that
\* give it Discoveries to scan.
NextSweep ==
    \/ TickSweep
    \/ SubmitSweep(MaxDisc)
    \/ DispatchSweep
    \/ PatchSweep
    \/ Sweeper

SpecSweep == Init /\ [][NextSweep]_vars

\* One sweeper task at a time over the Discoveries of several submissions;
\* the scheduler's loop and the workers run every task that is due or queued.
NextScan ==
    \/ TickSweep
    \/ SubmitSweep(MaxSweepDisc)
    \/ DispatchSweep
    \/ SweeperTask(1)

SpecScan == Init /\ [][NextScan]_vars /\ WF_vars(DispatchSweep) /\ WF_vars(SweeperTask(1))

\* The worker tasks as the code links them: run_discovery, then, once it has
\* returned, post_process_discovery_result with its result
\* (apply_async(link=...) of routes/discoveries.py; with check=True the
\* result's return code is 0).
WorkerLinked ==
    \E id \in Ids :
        \/ run_discovery_get(id)
        \/ run_discovery_save(id)
        \/ \E outcome \in {"result", "empty", "error"} : run_discovery_subprocess(id, outcome)
        \/ run[id].pc = "returned" /\ post_process_get(id, 1, 0)
        \/ \E io_ok \in BOOLEAN : post_process_archive(id, 1, io_ok)
        \/ post_process_save(id, 1)
        \/ \E delivered \in BOOLEAN : post_process_notify(id, 1, delivered)

\* Submissions, their dispatch and the linked worker tasks, every queued
\* background task and Celery task being run eventually.
NextRun ==
    \/ Tick
    \/ Submit
    \/ Dispatch
    \/ WorkerLinked

\* The HTTP handlers on the Discoveries of the submissions, called with the
\* id of a Discovery, with an id nothing is stored under and with a
\* discovery_id that is no ObjectId.
HttpRequests ==
    \E variant \in HttpVariants, id \in RequestIds :
        \/ get_discovery(variant, id)
        \/ \E file_name \in {BestResult, ResultsArchive} : get_discovery_file(variant, id, file_name)
        \/ \E status \in DiscoveryStatus : patch_discovery(variant, id, status)
        \/ delete_discovery_get(variant, id)
        \/ delete_discovery_save(id)

NextHttp ==
    \/ Submit
    \/ Dispatch
    \/ HttpRequests

SpecHttp == Init /\ [][NextHttp]_vars

\* The broker client of main.py: connect, and the publish of a submission.
NextBroker ==
    \/ SubmitBroker
    \/ Broker

SpecBroker == Init /\ [][NextBroker]_vars

\* DELETE /discoveries/ (delete_discoveries of routes/discoveries.py and of
\* main.py): the output directories of the Discoveries that get_all loaded
\* are removed, then delete_all empties the collection and the number of
\* deleted records is the answer; when rmtree raises (taken to be its first
\* call) the answer is InternalServerError and nothing is deleted.
delete_discoveries(fs_ok) ==
    /\ deletes < MaxDelete
    /\ deletes' = deletes + 1
    /\ LET removed == {id \in DOMAIN collection : rmtree_called(collection[id], id)}
       IN IF removed # {} /\ ~fs_ok
          THEN /\ response' = [op |-> "delete_all", email |-> FALSE, code |-> 500]
               /\ UNCHANGED <<collection, dirs, files>>
          ELSE /\ dirs' = dirs \ removed
               /\ files' = [i \in Ids |-> IF i \in removed THEN {} ELSE files[i]]
               /\ collection' = << >>
               /\ response' = [op |-> "delete_all", email |-> FALSE, code |-> 200,
                               deleted_amount |-> Cardinality(DOMAIN collection)]
    /\ UNCHANGED <<now, next_id, dispatch, published, run, post, notifier_calls,
                   patches, deleting, sweeper, broker_client, files_repository,
                   status_calls>>

DeleteAll == \E fs_ok \in BOOLEAN : delete_discoveries(fs_ok)

\* The submissions, their dispatch, the worker tasks and the sweeper, with
\* DELETE /discoveries/ called at any moment.
NextDeleteAll ==
    \/ TickSweep
    \/ Submit
    \/ Dispatch
    \/ WorkerLinked
    \/ Sweeper
    \/ DeleteAll

SpecDeleteAll == Init /\ [][NextDeleteAll]_vars

SpecRun == Init /\ [][NextRun]_vars /\ WF_vars(Dispatch) /\ WF_vars(WorkerLinked)

\* ------------------------------------------------------------ properties
\* The status graph of the lifecycle: ACCEPTED -> PENDING -> RUNNING ->
\* SUCCEEDED | FAILED, ACCEPTED -> FAILED, SUCCEEDED | FAILED -> EXPIRED ->
\* DELETED, and DELETED from every status.
TransitionGraph ==
    {<<ACCEPTED, PENDING>>, <<PENDING, RUNNING>>, <<RUNNING, SUCCEEDED>>,
     <<RUNNING, FAILED>>, <<ACCEPTED, FAILED>>, <<SUCCEEDED, EXPIRED>>,
     <<FAILED, EXPIRED>>}
       \cup {<<s, DELETED>> : s \in DiscoveryStatus \cup {EXPIRED}}

TerminalStatuses == {SUCCEEDED, FAILED, DELETED, EXPIRED}

\* A report task between its load and its end.
ReportActive(id, k) == post[id][k].pc \in {"save_failed", "archive", "save", "notify"}

ReportSteps(id, k) == ReportActive(id, k) /\ post'[id][k] # post[id][k]

\* C1: every change of a stored Discovery's status follows an edge of the
\* status graph; a request for any other transition leaves the status as it
\* was.
C1_StatusFollowsGraph ==
    [][\A id \in DOMAIN collection :
          \/ collection'[id].status = collection[id].status
          \/ <<collection[id].status, collection'[id].status>> \in TransitionGraph]_vars

\* C2: a completion report that finds the Discovery in a terminal status
\* changes neither its stored status nor its archive_url nor the files of
\* its output directory, and does not invoke the notifier.
C2_TerminalReportIsNoOp ==
    [][\A id \in DOMAIN collection : \A k \in Slots :
          (ReportSteps(id, k) /\ post[id][k].observed \in TerminalStatuses)
          => /\ collection'[id].status = collection[id].status
             /\ collection'[id].archive_url = collection[id].archive_url
             /\ files'[id] = files[id]
             /\ notifier_calls'[id] = notifier_calls[id]]_vars

\* C3: of two completion reports for one Discovery that both loaded it
\* before either stored anything, only one performs the transition: once
\* the first has stored its terminal status, the steps of the other change
\* neither the stored status nor the archive_url nor the output directory.
C3_OneReportTransitions ==
    [][\A id \in DOMAIN collection : \A k \in Slots :
          (/\ ReportSteps(id, k)
           /\ post[id][k].observed \notin TerminalStatuses
           /\ patches = 0 /\ deletes = 0
           /\ collection[id].status \in TerminalStatuses
           /\ \E j \in Slots \ {k} : post[id][j].pc \in {"done", "raised", "notify"})
          => /\ collection'[id].status = collection[id].status
             /\ collection'[id].archive_url = collection[id].archive_url
             /\ files'[id] = files[id]]_vars

\* C4: a status stored with save_status while the dispatch of main.py is
\* under way survives the dispatch's own save: once RUNNING is stored, no
\* step of the dispatch task stores PENDING over it.
C4_RunningSurvivesDispatch ==
    [][\A id \in DOMAIN collection :
          (/\ dispatch[id].pc # "idle"
           /\ dispatch[id].via = "broker"
           /\ dispatch'[id] # dispatch[id]
           /\ collection[id].status = RUNNING)
          => collection'[id].status # PENDING]_vars

\* C5: when the dispatch task of a submission has finished and nothing but
\* the dispatch has touched the Discovery (no PATCH, no DELETE, the run not
\* yet started), its stored status is PENDING if the publish succeeded and
\* FAILED if the publish raised.
C5_DispatchOutcome ==
    \A id \in Ids :
        (/\ dispatch[id].pc \in {"done", "raised"}
         /\ dispatch[id].via \in {"broker", "celery"}
         /\ patches = 0 /\ deletes = 0
         /\ run[id].pc \in {"idle", "queued"})
        => /\ id \in DOMAIN collection
           /\ collection[id].status = IF id \in published THEN PENDING ELSE FAILED

C5_Witness ==
    \E id \in Ids :
        /\ dispatch[id].pc = "done"
        /\ dispatch[id].via = "celery"
        /\ patches = 0 /\ deletes = 0
        /\ id \notin published
        /\ collection[id].status = FAILED

\* C6: a dispatch task (main.py, routes/discoveries.py) whose publish raised
\* never ends by raising: the exception does not leave the task.
C6_DispatchNeverRaises ==
    \A id \in Ids :
        (dispatch[id].pc # "idle" /\ dispatch[id].via \in {"broker", "celery"})
        => dispatch[id].pc # "raised"

\* C7: an accepted submission (answer 202) stores exactly one new Discovery,
\* with status ACCEPTED, answers with its id and status ACCEPTED while its
\* dispatch task has not yet taken a step, and no step of a dispatch task
\* changes an answer.
C7_AcceptedBeforeDispatch ==
    [][/\ (response' # response /\ response'.code = 202)
          => LET id == response'.id
             IN /\ id \notin DOMAIN collection
                /\ DOMAIN collection' = DOMAIN collection \cup {id}
                /\ \A j \in DOMAIN collection : collection'[j] = collection[j]
                /\ collection'[id].status = ACCEPTED
                /\ response'.status = ACCEPTED
                /\ dispatch[id].pc = "idle"
                /\ dispatch'[id].pc = "start"
       /\ (\E id \in Ids : dispatch[id].pc # "idle" /\ dispatch'[id] # dispatch[id])
          => response' = response]_vars

C7_Witness ==
    /\ response.code = 202
    /\ response.status = ACCEPTED
    /\ dispatch[response.id].pc = "raised"
    /\ dispatch[response.id].via = "broker"
    /\ response.id \notin published
    /\ collection[response.id].status = FAILED

\* C8: a submission that carries an email is answered NotSupported (501)
\* and leaves the stored Discoveries, the output directories, the dispatch
\* tasks and the id counter as they were.
C8_EmailRefusedFirst ==
    [][(response' # response /\ response'.op = "create" /\ response'.email)
       => /\ response'.code = 501
          /\ UNCHANGED <<next_id, collection, dirs, dispatch>>]_vars

\* C9: a completion report with a non-zero return code that loaded the
\* Discovery as RUNNING stores FAILED when it ends, leaves archive_url null
\* and invokes no notifier.
C9_FailureReport ==
    [][\A id \in DOMAIN collection : \A k \in Slots :
          (/\ post[id][k].pc = "save_failed"
           /\ post'[id][k] # post[id][k]
           /\ post[id][k].observed = RUNNING
           /\ collection[id].status = RUNNING
           /\ collection[id].archive_url = None)
          => /\ collection'[id].status = FAILED
             /\ collection'[id].archive_url = None
             /\ notifier_calls'[id] = notifier_calls[id]]_vars

\* C10: a completion report with return code 0 that loaded the Discovery as
\* RUNNING and archived best_result stores SUCCEEDED and a non-null
\* archive_url; best_result is gone from the output directory and the file
\* the archive_url names is in it.
C10_SuccessReport ==
    [][\A id \in DOMAIN collection : \A k \in Slots :
          (/\ post[id][k].pc = "save"
           /\ post'[id][k] # post[id][k]
           /\ ~post[id][k].raising
           /\ post[id][k].observed = RUNNING)
          => /\ collection'[id].status = SUCCEEDED
             /\ collection'[id].archive_url # None
             /\ BestResult \notin files'[id]
             /\ \A url \in collection'[id].archive_url :
                   url.id = id /\ url.file \in files'[id]]_vars

C10_Witness ==
    \E id \in DOMAIN collection : \E k \in Slots :
        /\ post[id][k].pc = "notify"
        /\ post[id][k].observed = RUNNING
        /\ collection[id].status = SUCCEEDED
        /\ collection[id].archive_url = Some(url_path_for(id, ResultsArchive))
        /\ BestResult \notin files[id]
        /\ ResultsArchive \in files[id]

\* C11: when archiving raised while a report with return code 0 was
\* processed for a Discovery loaded as RUNNING (archive_url null), the
\* report's save stores FAILED, archive_url stays null, and the task ends
\* there without invoking the notifier.
C11_ArchivingFailure ==
    [][\A id \in DOMAIN collection : \A k \in Slots :
          (/\ post[id][k].pc = "save"
           /\ post'[id][k] # post[id][k]
           /\ post[id][k].raising
           /\ post[id][k].observed = RUNNING
           /\ collection[id].status = RUNNING
           /\ collection[id].archive_url = None)
          => /\ collection'[id].status = FAILED
             /\ collection'[id].archive_url = None
             /\ post'[id][k].pc = "raised"
             /\ notifier_calls'[id] = notifier_calls[id]]_vars

\* C13: a stored Discovery has a non-null archive_url exactly when its
\* status is SUCCEEDED.
C13_ArchiveUrlIffSucceeded ==
    \A id \in DOMAIN collection :
        (collection[id].archive_url # None) <=> (collection[id].status = SUCCEEDED)

\* C14: the output directory of a stored Discovery exists while its status
\* is PENDING, RUNNING, SUCCEEDED or FAILED, and does not exist once its
\* status is DELETED.
C14_OutputDirFollowsStatus ==
    \A id \in DOMAIN collection :
        /\ collection[id].status \in {PENDING, RUNNING, SUCCEEDED, FAILED} => id \in dirs
        /\ collection[id].status = DELETED => id \notin dirs

\* C15: when DeleteDiscovery, having found the Discovery, ends, the stored
\* status is DELETED and the answer carries that id and status DELETED.
C15_DeleteStoresAndAnswers ==
    [][\A id \in Ids :
          (id \in deleting /\ id \notin deleting')
          => /\ id \in DOMAIN collection'
             /\ collection'[id].status = DELETED
             /\ response' = [op |-> "delete", email |-> FALSE, code |-> 200,
                             id |-> id, status |-> DELETED]]_vars

C15_Witness ==
    /\ response.op = "delete"
    /\ response.code = 200
    /\ response.status = DELETED
    /\ collection[response.id].status = DELETED
    /\ collection[response.id].archive_url # None
    /\ dispatch[response.id].pc = "done"

\* C16: when DeleteDiscovery ends, the output directory of the Discovery no
\* longer exists and its status is DELETED, the first time and every
\* further time.
C16_DeleteReclaimsStorage ==
    [][\A id \in Ids :
          (id \in deleting /\ id \notin deleting')
          => /\ id \notin dirs'
             /\ collection'[id].status = DELETED]_vars

\* C17: a step of mark_expired_discoveries at time now on a Discovery that
\* is stored as it was loaded, SUCCEEDED or FAILED, stores EXPIRED when its
\* finished_timestamp is now - R - 1 and leaves the collection unchanged
\* when its finished_timestamp is now - R or now - R + 1, R being
\* discovery_expiration_timedelta.
C17_RetentionBoundary ==
    [][\A s \in SweepSlots :
          LET task == sweeper.tasks[s]
          IN /\ task.pc = "scan"
             /\ task.kind = "mark"
             /\ sweeper'.tasks[s] # task
             /\ task.docs[Head(task.todo)].status \in {SUCCEEDED, FAILED}
             /\ collection[Head(task.todo)] = task.docs[Head(task.todo)]
             => LET id == Head(task.todo)
                    finished == task.docs[id].finished_timestamp
                IN /\ finished = Some(now - discovery_expiration_timedelta - 1)
                      => collection'[id].status = EXPIRED
                   /\ finished \in {Some(now - discovery_expiration_timedelta),
                                    Some(now - discovery_expiration_timedelta + 1)}
                      => collection' = collection]_vars

\* C18: a step of the sweeper changes the stored status of a Discovery to
\* EXPIRED only when the stored status was SUCCEEDED or FAILED.
C18_ExpiredOnlyFromFinished ==
    [][sweeper' # sweeper
       => \A id \in DOMAIN collection :
              /\ collection'[id].status = EXPIRED
              /\ collection[id].status # EXPIRED
              => collection[id].status \in {SUCCEEDED, FAILED}]_vars

\* C19: a sweeper task that an exception has left had no Discovery of its
\* scan left to process.
C19_FailureDoesNotStopPass ==
    \A s \in SweepSlots :
        sweeper.tasks[s].pc = "raised" => sweeper.tasks[s].todo = << >>

\* C20: no two tasks of the same sweeper pass are in their scan at the same
\* time.
C20_NoConcurrentPass ==
    \A s1, s2 \in SweepSlots :
        /\ s1 # s2
        /\ sweeper.tasks[s1].pc = "scan"
        /\ sweeper.tasks[s2].pc = "scan"
        => sweeper.tasks[s1].kind # sweeper.tasks[s2].kind

\* C28: a stored Discovery whose status is SUCCEEDED or FAILED has its
\* finished_timestamp set.
C28_FinishedTimestampSet ==
    \A id \in DOMAIN collection :
        collection[id].status \in {SUCCEEDED, FAILED}
        => collection[id].finished_timestamp # None

\* C23: every stored Discovery whose status is ACCEPTED eventually has
\* another status.
C23_LeavesAccepted ==
    \A id \in Ids :
        (id \in DOMAIN collection /\ collection[id].status = ACCEPTED)
        ~> (id \in DOMAIN collection /\ collection[id].status # ACCEPTED)

\* C29: every stored Discovery whose status is RUNNING eventually has the
\* status SUCCEEDED or FAILED.
C29_RunningEnds ==
    \A id \in Ids :
        (id \in DOMAIN collection /\ collection[id].status = RUNNING)
        ~> (id \in DOMAIN collection /\ collection[id].status \in {SUCCEEDED, FAILED})

\* C30: a stored Discovery that is SUCCEEDED or FAILED with its retention
\* window passed, at a time when a run of mark_expired_discoveries is
\* queued, is eventually EXPIRED or DELETED.
C30_EventuallyExpired ==
    \A id \in Ids :
        (/\ id \in DOMAIN collection
         /\ collection[id].status \in {SUCCEEDED, FAILED}
         /\ has_expired(collection[id].finished_timestamp, now)
         /\ \E s \in SweepSlots : /\ sweeper.tasks[s].pc = "queued"
                                  /\ sweeper.tasks[s].kind = "mark")
        ~> (id \in DOMAIN collection /\ collection[id].status \in {EXPIRED, DELETED})

\* C26: when GetDiscovery, GetDiscoveryFile or DeleteDiscovery answers a
\* request for an id that has no record, the answer is 404 and the
\* collection is unchanged.
C26_MissingIdNotFound ==
    [][/\ response' # response
       /\ response'.op \in {"get", "get_file", "delete"}
       /\ response'.id \notin DOMAIN collection
       => /\ response'.code = 404
          /\ collection' = collection]_vars

\* C27: PatchDiscoveryStatus answers 404 and leaves the collection unchanged
\* for an id that has no record; for an existing id it answers 200 with the
\* status stored for that id after the call.
C27_PatchAnswer ==
    [][/\ patches' # patches
       /\ response'.op = "patch"
       => IF response'.id \in DOMAIN collection
          THEN /\ response'.code = 200
               /\ response'.status = collection'[response'.id].status
          ELSE /\ response'.code = 404
               /\ collection' = collection]_vars

\* C21: a publish that meets at most one transport failure ends with the
\* announcement published and the dispatch not raising; one that meets two
\* ends with the dispatch raising.
C21_PublishRetriesOnce ==
    [][\A id \in Ids :
          /\ dispatch[id].pc = "start"
          /\ dispatch[id].via = "broker"
          /\ dispatch'[id].pc # "start"
          => /\ broker_client'.transport_failures <= 1
                => id \in published' /\ dispatch'[id].pc # "raised"
             /\ broker_client'.transport_failures = 2
                => dispatch'[id].pc = "raised"]_vars

\* C22: a call of BrokerClient.connect makes at most 5 attempts, has slept
\* once after each failed attempt that another follows, returns when an
\* attempt has succeeded and has raised when its 5th attempt failed.
C22_ConnectBudget ==
    /\ broker_client.attempts <= 5
    /\ broker_client.pc = "connecting"
       => /\ broker_client.attempts < 5
          /\ broker_client.slept = broker_client.attempts
    /\ broker_client.outcome = "returned" <=> broker_client.last = "ok"
    /\ broker_client.pc = "idle" /\ broker_client.attempts = 5
       /\ broker_client.last = "connection_error"
       => broker_client.outcome = "raised"

C22_Witness ==
    /\ broker_client.attempts = 5
    /\ broker_client.slept = 4
    /\ broker_client.outcome = "raised"

\* C24: a create whose content has the hash of a stored file writes nothing
\* and returns the name of a file that was stored before.
C24_ContentAddressing ==
    [][/\ \/ files_repository'.writes # files_repository.writes
          \/ files_repository'.created # files_repository.created
       /\ \E new_file \in files_repository'.created :
             \E f \in files_repository.stored : compute_sha256(f.content) = new_file.sha256
       => /\ files_repository'.writes = files_repository.writes
          /\ \A new_file \in files_repository'.created :
                \E f \in files_repository.stored : f.file_name = new_file.file_name]_vars

\* The documents that result from applying the save_status calls of S to
\* doc one after the other, in every order.
RECURSIVE SerialResults(_, _, _)
SerialResults(id, doc, S) ==
    IF S = {} THEN {doc}
    ELSE UNION {SerialResults(id,
                              save_status([i \in {id} |-> doc], id,
                                          status_calls.calls[c].status,
                                          status_calls.calls[c].archive_url,
                                          status_calls.calls[c].t)[id],
                              S \ {c}) : c \in S}

\* C25: once the concurrent save_status calls for a Discovery have all
\* completed, the stored document is the result of applying them to the
\* document they found one after the other in one of the orders.
C25_StatusUpdatesSerialize ==
    (\A c \in Callers : status_calls.calls[c].pc = "done")
    => \A b \in status_calls.base :
          collection[b.id] \in SerialResults(b.id, b.doc, Callers)

C25_Witness ==
    /\ \A c \in Callers : status_calls.calls[c].pc = "done"
    /\ status_calls.calls[1].status = RUNNING
    /\ status_calls.calls[2].status = SUCCEEDED
    /\ status_calls.calls[2].archive_url # None
    /\ status_calls.calls[1].t < status_calls.calls[2].t
    /\ \E b \in status_calls.base :
          /\ collection[b.id].status = RUNNING
          /\ collection[b.id].archive_url # None
          /\ collection[b.id].finished_timestamp = Some(status_calls.calls[2].t)

\* C31: a stored Discovery whose status is PENDING has been announced to the
\* broker or the task queue.
C31_PendingAfterPublish ==
    \A id \in DOMAIN collection :
        collection[id].status = PENDING => id \in published


\* C32: a stored Discovery is marked notified only when it has notification
\* settings, so that a notification was attempted for it; a Discovery
\* without settings keeps notified = FALSE.
C32_NotifiedOnlyWithSettings ==
    \A id \in DOMAIN collection :
        collection[id].notified => collection[id].notification_settings # None


\* The fields of a stored document that a save_status call with this status
\* and archive URL may write.
save_status_may_write(status, archive_url) ==
    {"status"}
    \cup (IF status = RUNNING THEN {"started_timestamp"} ELSE {})
    \cup (IF status \in {FAILED, SUCCEEDED, DELETED} THEN {"finished_timestamp"} ELSE {})
    \cup (IF status = SUCCEEDED /\ archive_url # None THEN {"archive_url"} ELSE {})

\* C33: a PATCH, which is one save_status call, leaves the set of stored
\* records as it was (no record is created for a missing id), leaves every
\* other record as it was, and in the record of its id writes the status,
\* started_timestamp when the status is RUNNING, finished_timestamp when it
\* is FAILED, SUCCEEDED or DELETED, archive_url when it is SUCCEEDED and a
\* URL was given, and no other field.
C33_SaveStatusFrame ==
    [][\A variant \in HttpVariants, id \in Ids, status \in DiscoveryStatus :
          patch_discovery(variant, id, status)
          => /\ DOMAIN collection' = DOMAIN collection
             /\ \A i \in DOMAIN collection : i # id => collection'[i] = collection[i]
             /\ id \in DOMAIN collection
                => LET may == save_status_may_write(status, make_results_url_for(id, status))
                   IN /\ \A f \in DOMAIN collection[id] \ may :
                            collection'[id][f] = collection[id][f]
                      /\ collection'[id].status = status
                      /\ "started_timestamp" \in may
                         => collection'[id].started_timestamp = Some(now)
                      /\ "finished_timestamp" \in may
                         => collection'[id].finished_timestamp = Some(now)
                      /\ "archive_url" \in may
                         => collection'[id].archive_url = make_results_url_for(id, status)]_vars

C33_Witness ==
    /\ patches = 1
    /\ response.op = "patch"
    /\ response.code = 200
    /\ response.id \in DOMAIN collection
    /\ collection[response.id].status = SUCCEEDED
    /\ collection[response.id].finished_timestamp = Some(now)
    /\ collection[response.id].archive_url # None
    /\ collection[response.id].started_timestamp # None
    /\ collection[response.id].started_timestamp # Some(now)


\* C34: a created, started or finished timestamp that a stored Discovery
\* has is not changed by any later step.
C34_TimestampsWriteOnce ==
    [][\A id \in DOMAIN collection \cap DOMAIN collection' :
          \A f \in {"created_timestamp", "started_timestamp", "finished_timestamp"} :
              collection[id][f] # None => collection'[id][f] = collection[id][f]]_vars


\* C35: when create has returned, the stored record of the new id carries
\* ACCEPTED and the created_timestamp and output_dir of the Discovery that
\* create returned, the output_dir is set and the directory exists.
C35_CreateStoresReturned ==
    [][\A id \in Ids :
          /\ id \notin DOMAIN collection
          /\ id \in DOMAIN collection'
          /\ dispatch'[id].pc # "idle"
          /\ dispatch'[id].via # "legacy"
          => /\ collection'[id].status = ACCEPTED
             /\ collection'[id].created_timestamp = dispatch'[id].discovery.created_timestamp
             /\ collection'[id].output_dir = dispatch'[id].discovery.output_dir
             /\ collection'[id].output_dir # None
             /\ id \in dirs']_vars


\* C36: a step of a clean pass that stores DELETED for a Discovery leaves
\* its output directory absent; a step on an EXPIRED Discovery whose
\* directory could not be removed stores nothing, so that the Discovery
\* stays as it was for a later clean pass.
C36_DeletedAfterRemoval ==
    [][\A s \in SweepSlots :
          /\ sweeper.tasks[s].pc = "scan"
          /\ sweeper.tasks[s].kind = "clean"
          /\ sweeper'.tasks[s] # sweeper.tasks[s]
          => LET id == Head(sweeper.tasks[s].todo)
             IN /\ (collection' # collection /\ collection'[id].status = DELETED)
                   => id \notin dirs'
                /\ id \in dirs' => collection' = collection]_vars


\* C37: a step of a sweeper pass stores a status for a Discovery only while
\* the stored status is still the one its get_all loaded, and no step sets
\* a DELETED Discovery to EXPIRED.
C37_SweeperKeepsNewerStatus ==
    [][/\ \A s \in SweepSlots :
             /\ sweeper.tasks[s].pc = "scan"
             /\ sweeper'.tasks[s] # sweeper.tasks[s]
             /\ collection' # collection
             => LET id == Head(sweeper.tasks[s].todo)
                IN id \in DOMAIN collection
                   /\ collection[id].status = sweeper.tasks[s].docs[id].status
       /\ \A id \in DOMAIN collection \cap DOMAIN collection' :
             collection[id].status = DELETED => collection'[id].status # EXPIRED]_vars


\* C38: an id that was handed out and has no stored record (its record was
\* deleted by delete_all) gets no record again by any later step.
C38_NoRecordAfterDeleteAll ==
    [][\A id \in Ids :
          id < next_id /\ id \notin DOMAIN collection => id \notin DOMAIN collection']_vars


\* C39: after create(content, suffix), does_exist of the content's hash is
\* true and every File get_by_sha256 can return for it has that content;
\* after delete of a hash, does_exist of it is false.
C39_CreateGetDelete ==
    [][/\ \A content \in Contents, suffix \in Suffixes :
             FileSystemFilesRepository_create(content, suffix)
             => /\ does_exist(files_repository'.stored, compute_sha256(content))
                /\ \A file \in get_by_sha256(files_repository'.stored, compute_sha256(content)) :
                      file.content = content
       /\ \A content \in Contents :
             FileSystemFilesRepository_delete(compute_sha256(content))
             => ~does_exist(files_repository'.stored, compute_sha256(content))]_vars

====
